---------------------------- MODULE Spec2Model ----------------------------
(***************************************************************************)
(* Model of bevy-butler's #[system] / config_systems! code generation and  *)
(* of the registry its generated code fills at load time.                  *)
(*                                                                         *)
(*   system_impl.rs          SystemArgs (parse, splat, to_tokens) and      *)
(*                           system_free_standing_impl                     *)
(*   config_systems/mod.rs   macro_impl                                    *)
(*   tests/butler_plugin     the zero-systems plugin test                  *)
(***************************************************************************)
EXTENDS Naturals, Sequences, FiniteSets

VARIABLES
    input,      \* SpecParse: the attribute's argument tokens
    parsed,     \* SpecParse: what SystemArgs::parse returned for `input`
    outer,      \* SpecSplat: the group's defaults (self of splat)
    inner,      \* SpecSplat: the nested group's / declaration's arguments
    merged,     \* SpecSplat: outer.splat(inner)
    innermost,  \* SpecSplat: a declaration's arguments below `inner`
    nestedL,    \* SpecSplat: outer.splat(inner).splat(innermost)
    nestedR,    \* SpecSplat: outer.splat(inner.splat(innermost))
    genArgs,    \* SpecGen: args handed to system_free_standing_impl
    genItem,    \* SpecGen: the annotated function
    genOut,     \* SpecGen: what system_free_standing_impl returned
    defaults,   \* SpecGroup: config_systems! defaults
    items,      \* SpecGroup: config_systems! body items
    expanded,   \* SpecGroup: what macro_impl returned
    phase,      \* Spec: "build", "build_failed", "load", "run", "exited"
    decls,      \* Spec: the declarations expanded so far, in build order
    slice,      \* Spec: BUTLER_SLICE, the generated ButlerFunc statics
    loaded,     \* Spec: how many elements of the slice have been called
    registry,   \* Spec: ButlerRegistry, TypeId -> Vec of closures
    inserted,   \* Spec: history of the closures pushed, in push order
    app,        \* Spec: the add_systems calls the App received, in order
    built       \* Spec: the plugins whose build has run

vars == <<input, parsed, outer, inner, merged, innermost, nestedL, nestedR,
          genArgs, genItem, genOut, defaults, items, expanded,
          phase, decls, slice, loaded, registry, inserted, app, built>>

parseVars == <<input, parsed>>
splatVars == <<outer, inner, merged, innermost, nestedL, nestedR>>
genVars   == <<genArgs, genItem, genOut>>
groupVars == <<defaults, items, expanded>>
runVars   == <<phase, decls, slice, loaded, registry, inserted, app, built>>

---------------------------------------------------------------------------
(* Bounds *)

MaxTokens     == 5   \* tokens in one attribute argument list
MaxTransforms == 2   \* transforms per SystemArgs
MaxDecls      == 3   \* #[system] declarations in one program
MaxItems      == 3   \* items in one config_systems! body

BoundedSeq(S, n) == UNION {[1..k -> S] : k \in 0..n}

---------------------------------------------------------------------------
(* SystemArgs *)

\* Option::None of an Option<ExprPath>
None == "None"

Plugins   == {"PluginA", "PluginB"}
Schedules == {"Startup", "Update"}

\* (Path, Expr) pairs a transform argument can be
TransformCalls == {<<"run_if", "always_true">>, <<"after", "setup">>}

SystemArgs ==
    [plugin : Plugins \cup {None},
     schedule : Schedules \cup {None},
     transforms : BoundedSeq(TransformCalls, MaxTransforms)]

NewArgs == [plugin |-> None, schedule |-> None, transforms |-> <<>>]

---------------------------------------------------------------------------
(* impl Parse for SystemArgs *)

NoExpr == [kind |-> "None", text |-> ""]
PathExpr(t) == [kind |-> "Path", text |-> t]
OtherExpr(t) == [kind |-> "Other", text |-> t]

Comma == [kind |-> "Comma", path |-> <<>>, value |-> NoExpr]
MetaNameValue(p, v) == [kind |-> "NameValue", path |-> p, value |-> v]
MetaPath(p) == [kind |-> "Path", path |-> p, value |-> NoExpr]

Tokens ==
    { MetaNameValue(<<"schedule">>, PathExpr("Startup")),
      MetaNameValue(<<"schedule">>, PathExpr("Update")),
      MetaNameValue(<<"schedule">>, OtherExpr("|| true")),
      MetaNameValue(<<"plugin">>, PathExpr("PluginA")),
      MetaNameValue(<<"plugin">>, OtherExpr("|| true")),
      MetaNameValue(<<"run_if">>, PathExpr("always_true")),
      MetaPath(<<"schedule">>),
      Comma }

NoError == [kind |-> "None", key |-> ""]
SyntaxError == [kind |-> "SyntaxError", key |-> ""]
DuplicateKeyError(k) == [kind |-> "DuplicateKeyError", key |-> k]
InvalidArgumentError(k) == [kind |-> "InvalidArgumentError", key |-> k]

Pending == [status |-> "pending", args |-> NewArgs, err |-> NoError]
Ok(a)   == [status |-> "ok", args |-> a, err |-> NoError]
Err(e)  == [status |-> "err", args |-> NewArgs, err |-> e]

\* the "schedule" arm with the value checked before the duplicate
ParseScheduleValueFirst(nv, args) ==
    IF nv.value.kind # "Path" THEN Err(InvalidArgumentError("schedule"))
    ELSE IF args.schedule # None THEN Err(DuplicateKeyError("schedule"))
    ELSE Ok([args EXCEPT !.schedule = nv.value.text])

\* the "schedule" arm of the match
ParseSchedule(nv, args) ==
    IF args.schedule # None THEN Err(DuplicateKeyError("schedule"))
    ELSE IF nv.value.kind = "Path"
         THEN Ok([args EXCEPT !.schedule = nv.value.text])
         ELSE Err(InvalidArgumentError("schedule"))

\* the "plugin" arm of the match
ParsePlugin(nv, args) ==
    IF args.plugin # None THEN Err(DuplicateKeyError("plugin"))
    ELSE IF nv.value.kind = "Path"
         THEN Ok([args EXCEPT !.plugin = nv.value.text])
         ELSE Err(InvalidArgumentError("plugin"))

\* the `_` arm: any other name is a transform
ParseTransform(nv, args) ==
    Ok([args EXCEPT !.transforms = Append(@, <<nv.path[1], nv.value.text>>)])

\* one Meta: parse::<Meta>, require_name_value, get_ident, match
ParseMeta(tok, args) ==
    IF tok.kind = "Comma" THEN Err(SyntaxError)
    ELSE IF tok.kind # "NameValue" THEN Err(SyntaxError)
    ELSE IF Len(tok.path) # 1 THEN Err(SyntaxError)
    ELSE IF tok.path[1] = "schedule" THEN ParseSchedule(tok, args)
    ELSE IF tok.path[1] = "plugin" THEN ParsePlugin(tok, args)
    ELSE ParseTransform(tok, args)

RECURSIVE ParseLoop(_, _)
ParseLoop(rest, args) ==
    IF rest = <<>> THEN Ok(args)
    ELSE LET step == ParseMeta(Head(rest), args)
             after == Tail(rest)
         IN  IF step.status # "ok" THEN step
             ELSE IF after = <<>> THEN Ok(step.args)
             ELSE IF Head(after).kind # "Comma" THEN Err(SyntaxError)
             ELSE ParseLoop(Tail(after), step.args)

Parse(toks) == ParseLoop(toks, NewArgs)

ParseInit ==
    /\ input \in BoundedSeq(Tokens, MaxTokens)
    /\ parsed = Pending

DoParse ==
    /\ parsed.status = "pending"
    /\ parsed' = Parse(input)
    /\ UNCHANGED input

---------------------------------------------------------------------------
(* SystemArgs::splat *)

\* Option::or
OptionOr(a, b) == IF a # None THEN a ELSE b

\* splat with the defaults winning over the overriding arguments
splatOuterWins(self, new_args) ==
    [plugin |-> OptionOr(self.plugin, new_args.plugin),
     schedule |-> OptionOr(self.schedule, new_args.schedule),
     transforms |-> self.transforms \o new_args.transforms]

\* splat with the overriding transforms put first
splatInnerFirst(self, new_args) ==
    [plugin |-> OptionOr(new_args.plugin, self.plugin),
     schedule |-> OptionOr(new_args.schedule, self.schedule),
     transforms |-> new_args.transforms \o self.transforms]

\* splat dropping the defaults' transforms once the defaults hold a scalar
\* the overriding arguments replace
splatForgetful(self, new_args) ==
    [plugin |-> OptionOr(new_args.plugin, self.plugin),
     schedule |-> OptionOr(new_args.schedule, self.schedule),
     transforms |-> IF self.plugin # None /\ new_args.plugin # None
                    THEN new_args.transforms
                    ELSE self.transforms \o new_args.transforms]

splat(self, new_args) ==
    [plugin |-> OptionOr(new_args.plugin, self.plugin),
     schedule |-> OptionOr(new_args.schedule, self.schedule),
     transforms |-> self.transforms \o new_args.transforms]

NotMerged == [done |-> FALSE, args |-> NewArgs]
Merged(a) == [done |-> TRUE, args |-> a]

SplatInit ==
    /\ outer \in SystemArgs
    /\ inner \in SystemArgs
    /\ innermost = NewArgs
    /\ merged = NotMerged
    /\ nestedL = NotMerged
    /\ nestedR = NotMerged

\* a declaration under one group: outer.splat(inner)
SplatPair ==
    /\ ~merged.done
    /\ merged' = Merged(splat(outer, inner))
    /\ UNCHANGED <<outer, inner, innermost, nestedL, nestedR>>

\* a declaration under a group inside a group, resolved both ways round
SplatNested ==
    /\ merged.done
    /\ ~nestedL.done
    /\ \E c \in SystemArgs :
         /\ innermost' = c
         /\ nestedL' = Merged(splat(merged.args, c))
         /\ nestedR' = Merged(splat(outer, splat(inner, c)))
    /\ UNCHANGED <<outer, inner, merged>>

---------------------------------------------------------------------------
(* impl ToTokens for SystemArgs *)

RECURSIVE TransformMetas(_)
TransformMetas(ts) ==
    IF ts = <<>> THEN <<>>
    ELSE <<MetaNameValue(<<Head(ts)[1]>>, PathExpr(Head(ts)[2])), Comma>>
         \o TransformMetas(Tail(ts))

to_tokens(args) ==
    (IF args.plugin # None
     THEN <<MetaNameValue(<<"plugin">>, PathExpr(args.plugin)), Comma>>
     ELSE <<>>)
    \o (IF args.schedule # None
        THEN <<MetaNameValue(<<"schedule">>, PathExpr(args.schedule)), Comma>>
        ELSE <<>>)
    \o TransformMetas(args.transforms)

---------------------------------------------------------------------------
(* system_free_standing_impl *)

Names == {"setup", "update"}
Paths == {"a.src", "b.src"}
Lines == {5, 10}

\* an ItemFn: its ident and the place of the source it stands at
ItemFns == [ident : Names, path : Paths, line : Lines]

NoItem == [ident |-> "", path |-> "", line |-> 0]

MissingRequiredConfigError(k) == [kind |-> "MissingRequiredConfigError", key |-> k]

\* quote! { #path(#expr) }
CallToken(t) == [kind |-> "Call", path |-> t[1], arg |-> t[2]]
IdentToken(n) == [kind |-> "Ident", path |-> n, arg |-> ""]
Dot == [kind |-> "Dot", path |-> "", arg |-> ""]

\* TokenStreamExt::append_separated(iter, Token![.]): the separator goes
\* before every element but the first
RECURSIVE append_separated_from(_, _, _)
append_separated_from(tokens, calls, i) ==
    IF i > Len(calls) THEN tokens
    ELSE append_separated_from(
             tokens \o (IF i > 1 THEN <<Dot>> ELSE <<>>) \o <<CallToken(calls[i])>>,
             calls, i + 1)

append_separated(tokens, calls) == append_separated_from(tokens, calls, 1)

RECURSIVE Reverse(_)
Reverse(s) == IF s = <<>> THEN <<>> ELSE Append(Reverse(Tail(s)), Head(s))

\* the transforms rendered last-declared first
TransformTokensReversed(transforms) ==
    IF transforms = <<>> THEN <<>>
    ELSE append_separated(<<Dot>>, Reverse(transforms))

\* let transforms = if args.transforms.is_empty() { None } else { . a(x) . b(y) }
TransformTokens(transforms) ==
    IF transforms = <<>> THEN <<>>
    ELSE append_separated(<<Dot>>, transforms)

\* format_ident!("__butler_{}", sys_name)
butler_func_name(sys_name) == <<"__butler_", sys_name>>

\* the closure a ButlerFunc pushes: |app| { app.add_systems(#schedule, #sys_name #transforms); }
\* `scope` is the place whose `#sys_name` the tokens resolve to
Closure(schedule, item, transforms) ==
    [schedule |-> schedule,
     system |-> <<IdentToken(item.ident)>> \o TransformTokens(transforms),
     scope |-> item]

NoClosure == [schedule |-> None, system |-> <<>>, scope |-> NoItem]
NoStatic == [name |-> <<>>, plugin |-> None, closure |-> NoClosure]

GenPending == [status |-> "pending", err |-> NoError, item |-> NoItem, static |-> NoStatic]
GenErr(e)  == [status |-> "err", err |-> e, item |-> NoItem, static |-> NoStatic]
GenOk(item, static) == [status |-> "ok", err |-> NoError, item |-> item, static |-> static]

\* generation with a missing plugin defaulted instead of refused
system_free_standing_impl_defaulting(args, item) ==
    IF args.schedule = None THEN GenErr(MissingRequiredConfigError("schedule"))
    ELSE GenOk(item,
               [name |-> butler_func_name(item.ident),
                plugin |-> OptionOr(args.plugin, "PluginA"),
                closure |-> Closure(args.schedule, item, args.transforms)])

system_free_standing_impl(args, item) ==
    IF args.schedule = None THEN GenErr(MissingRequiredConfigError("schedule"))
    ELSE IF args.plugin = None THEN GenErr(MissingRequiredConfigError("plugin"))
    ELSE GenOk(item,
               [name |-> butler_func_name(item.ident),
                plugin |-> args.plugin,
                closure |-> Closure(args.schedule, item, args.transforms)])

GenInit ==
    /\ genArgs \in SystemArgs
    /\ genItem \in ItemFns
    /\ genOut = GenPending

Generate ==
    /\ genOut.status = "pending"
    /\ genOut' = system_free_standing_impl(genArgs, genItem)
    /\ UNCHANGED <<genArgs, genItem>>

\* How rustc reads `f . a(x) . b(y)`: method calls associate to the left, so
\* each call takes everything before it as its receiver.  The result lists
\* the calls innermost (applied first) to outermost (applied last).
RECURSIVE MethodChain(_, _)
MethodChain(tokens, applied) ==
    IF tokens = <<>> THEN [wellformed |-> TRUE, applied |-> applied]
    ELSE IF Len(tokens) >= 2 /\ tokens[1].kind = "Dot" /\ tokens[2].kind = "Call"
         THEN MethodChain(SubSeq(tokens, 3, Len(tokens)),
                          Append(applied, <<tokens[2].path, tokens[2].arg>>))
         ELSE [wellformed |-> FALSE, applied |-> applied]

\* the handler expression `#sys_name #transforms` as rustc reads it
HandlerExpr(system) ==
    IF system = <<>> \/ system[1].kind # "Ident"
    THEN [wellformed |-> FALSE, base |-> "", applied |-> <<>>]
    ELSE LET chain == MethodChain(Tail(system), <<>>)
         IN  [wellformed |-> chain.wellformed,
              base |-> system[1].path,
              applied |-> chain.applied]

---------------------------------------------------------------------------
(* config_systems! : macro_impl *)

CONFIG_SYSTEMS_DEFAULT_ARGS_IDENT == "_butler_config_systems_defaults"

\* defaults.get_metas(): the defaults as `name = value` metas
get_metas(args) == to_tokens(args)

\* the dummy attribute #[_butler_config_systems_defaults { ... }]
config_attr(args) ==
    [path |-> CONFIG_SYSTEMS_DEFAULT_ARGS_IDENT, tokens |-> get_metas(args)]

SystemAttr ==
    [path |-> "system",
     tokens |-> <<MetaNameValue(<<"schedule">>, PathExpr("Startup"))>>]

\* syn::Item: a function, a macro invocation, or anything else
BodyItems ==
    { [kind |-> "Fn", ident |-> "setup", attrs |-> <<SystemAttr>>],
      [kind |-> "Fn", ident |-> "helper", attrs |-> <<>>],
      [kind |-> "Macro", ident |-> "config_systems", attrs |-> <<>>],
      [kind |-> "Struct", ident |-> "Marker", attrs |-> <<>>] }

ExpandPending == [status |-> "pending", items |-> <<>>]

\* for item in items.iter_mut() { match item { ... } }
RECURSIVE StampItems(_, _, _)
StampItems(rest, attr, done) ==
    IF rest = <<>> THEN [status |-> "ok", items |-> done]
    ELSE LET item == Head(rest) IN
         IF item.kind = "Fn"
         THEN StampItems(Tail(rest), attr,
                         Append(done, [item EXCEPT !.attrs = Append(@, attr)]))
         ELSE IF item.kind = "Macro"
         THEN [status |-> "panic", items |-> <<>>]      \* todo!()
         ELSE StampItems(Tail(rest), attr, Append(done, item))

macro_impl(system_args, body) == StampItems(body, config_attr(system_args), <<>>)

GroupInit ==
    /\ defaults \in SystemArgs
    /\ items \in BoundedSeq(BodyItems, MaxItems)
    /\ expanded = ExpandPending

ExpandGroup ==
    /\ expanded.status = "pending"
    /\ expanded' = macro_impl(defaults, items)
    /\ UNCHANGED <<defaults, items>>

---------------------------------------------------------------------------
(* The generated program: build, load, run *)

\* the places a #[system] function can stand at, in the order the build
\* meets them
SourceOrder == << <<"a.src", 5>>, <<"a.src", 10>>, <<"b.src", 5>>, <<"b.src", 10>> >>

PlaceOf(item) == CHOOSE i \in 1..Len(SourceOrder) : SourceOrder[i] = <<item.path, item.line>>

\* resolved arguments of the programs explored
RunArgs ==
    {a \in SystemArgs : a.transforms \in {<<>>, << <<"run_if", "always_true">> >>}}

EmptyRegistry == [k \in {} |-> <<>>]

\* ButlerFunc that overwrites the plugin's entry
ButlerFuncReplace(static, reg) ==
    [k \in DOMAIN reg \cup {static.plugin} |->
        IF k = static.plugin THEN <<static.closure>> ELSE reg[k]]

\* ButlerFunc that inserts at the front of the plugin's entry
ButlerFuncFront(static, reg) ==
    [k \in DOMAIN reg \cup {static.plugin} |->
        IF k = static.plugin
        THEN <<static.closure>> \o (IF k \in DOMAIN reg THEN reg[k] ELSE <<>>)
        ELSE reg[k]]

\* |registry| { registry.entry(TypeId::of::<#plugin>()).or_default().push(closure); }
ButlerFunc(static, reg) ==
    [k \in DOMAIN reg \cup {static.plugin} |->
        IF k = static.plugin
        THEN Append(IF k \in DOMAIN reg THEN reg[k] ELSE <<>>, static.closure)
        ELSE reg[k]]

\* Registry.entries_for(component_identity)
entries_for(reg, p) == IF p \in DOMAIN reg THEN reg[p] ELSE <<>>

\* |app| { app.add_systems(#schedule, #sys_name #transforms); }, called while
\* plugin `p` builds
InvokeClosure(c, a, p) ==
    Append(a, [by |-> p, schedule |-> c.schedule, system |-> c.system, scope |-> c.scope])

\* bootstrap(instance): every closure registered for the plugin, in order
RECURSIVE bootstrap(_, _, _)
bootstrap(p, closures, a) ==
    IF closures = <<>> THEN a
    ELSE bootstrap(p, Tail(closures), InvokeClosure(Head(closures), a, p))

RunInit ==
    /\ phase = "build"
    /\ decls = <<>>
    /\ slice = <<>>
    /\ loaded = 0
    /\ registry = EmptyRegistry
    /\ inserted = <<>>
    /\ app = <<>>
    /\ built = {}

\* the build expands one more #[system] function
ExpandSystem ==
    /\ phase = "build"
    /\ Len(decls) < MaxDecls
    /\ \E item \in ItemFns, args \in RunArgs :
         /\ decls # <<>> => PlaceOf(item) > PlaceOf(decls[Len(decls)])
         /\ LET out == system_free_standing_impl(args, item) IN
            IF out.status = "ok"
            THEN /\ decls' = Append(decls, item)
                 /\ slice' = Append(slice, out.static)
                 /\ phase' = "build"
            ELSE /\ phase' = "build_failed"
                 /\ UNCHANGED <<decls, slice>>
    /\ UNCHANGED <<loaded, registry, inserted, app, built>>

\* the build succeeded and the program is started
StartProgram ==
    /\ phase = "build"
    /\ phase' = "load"
    /\ UNCHANGED <<decls, slice, loaded, registry, inserted, app, built>>

\* the next element of BUTLER_SLICE is called with the registry
CallButlerFunc ==
    /\ phase = "load"
    /\ loaded < Len(slice)
    /\ registry' = ButlerFunc(slice[loaded + 1], registry)
    /\ inserted' = Append(inserted, slice[loaded + 1])
    /\ loaded' = loaded + 1
    /\ UNCHANGED <<phase, decls, slice, app, built>>

\* every element was called: the registry is complete
RegistryReady ==
    /\ phase = "load"
    /\ loaded = Len(slice)
    /\ phase' = "run"
    /\ UNCHANGED <<decls, slice, loaded, registry, inserted, app, built>>

\* App::add_plugins(p): the plugin's build walks its registry entry
AddPlugin ==
    /\ phase = "run"
    /\ \E p \in Plugins \ built :
         /\ app' = bootstrap(p, entries_for(registry, p), app)
         /\ built' = built \cup {p}
    /\ UNCHANGED <<phase, decls, slice, loaded, registry, inserted>>

\* App::run()
RunApp ==
    /\ phase = "run"
    /\ phase' = "exited"
    /\ UNCHANGED <<decls, slice, loaded, registry, inserted, app, built>>

---------------------------------------------------------------------------
(* Specifications *)

ParseIdle == input = <<>> /\ parsed = Pending
SplatIdle ==
    /\ outer = NewArgs /\ inner = NewArgs /\ innermost = NewArgs
    /\ merged = NotMerged /\ nestedL = NotMerged /\ nestedR = NotMerged
GenIdle == genArgs = NewArgs /\ genItem = NoItem /\ genOut = GenPending
GroupIdle == defaults = NewArgs /\ items = <<>> /\ expanded = ExpandPending
RunIdle ==
    /\ phase = "idle" /\ decls = <<>> /\ slice = <<>> /\ loaded = 0
    /\ registry = EmptyRegistry /\ inserted = <<>> /\ app = <<>> /\ built = {}

\* SystemArgs::parse over every argument list
InitParse == ParseInit /\ SplatIdle /\ GenIdle /\ GroupIdle /\ RunIdle
NextParse == DoParse /\ UNCHANGED <<splatVars, genVars, groupVars, runVars>>
SpecParse == InitParse /\ [][NextParse]_vars

\* SystemArgs::splat over every pair of records, and over nested groups
InitSplat == ParseIdle /\ SplatInit /\ GenIdle /\ GroupIdle /\ RunIdle
NextSplat ==
    \/ SplatPair /\ UNCHANGED <<parseVars, genVars, groupVars, runVars>>
    \/ SplatNested /\ UNCHANGED <<parseVars, genVars, groupVars, runVars>>
SpecSplat == InitSplat /\ [][NextSplat]_vars

\* system_free_standing_impl over every resolved record and function
InitGen == ParseIdle /\ SplatIdle /\ GenInit /\ GroupIdle /\ RunIdle
NextGen == Generate /\ UNCHANGED <<parseVars, splatVars, groupVars, runVars>>
SpecGen == InitGen /\ [][NextGen]_vars

\* config_systems! over every defaults record and body
InitGroup == ParseIdle /\ SplatIdle /\ GenIdle /\ GroupInit /\ RunIdle
NextGroup == ExpandGroup /\ UNCHANGED <<parseVars, splatVars, genVars, runVars>>
SpecGroup == InitGroup /\ [][NextGroup]_vars

\* a program with #[system] functions: built, loaded, run
Init == ParseIdle /\ SplatIdle /\ GenIdle /\ GroupIdle /\ RunInit
Next ==
    \/ ExpandSystem /\ UNCHANGED <<parseVars, splatVars, genVars, groupVars>>
    \/ StartProgram /\ UNCHANGED <<parseVars, splatVars, genVars, groupVars>>
    \/ CallButlerFunc /\ UNCHANGED <<parseVars, splatVars, genVars, groupVars>>
    \/ RegistryReady /\ UNCHANGED <<parseVars, splatVars, genVars, groupVars>>
    \/ AddPlugin /\ UNCHANGED <<parseVars, splatVars, genVars, groupVars>>
    \/ RunApp /\ UNCHANGED <<parseVars, splatVars, genVars, groupVars>>
Spec == Init /\ [][Next]_vars

---------------------------------------------------------------------------
(* Claims about SystemArgs::splat, checked under SpecSplat *)

\* C1: splat(outer, inner).transforms is outer.transforms followed by
\* inner.transforms: every entry of either side is kept, at its place, and
\* none is dropped, reordered or de-duplicated.
C1_TransformsConcatenated ==
    merged.done =>
        LET o == outer.transforms
            i == inner.transforms
            m == merged.args.transforms
        IN  /\ Len(m) = Len(o) + Len(i)
            /\ \A k \in 1..Len(o) : m[k] = o[k]
            /\ \A k \in 1..Len(i) : m[Len(o) + k] = i[k]

\* a group's two distinct transforms merged with a declaration that repeats
\* one of them and overrides the plugin
C1_Witness ==
    /\ merged.done
    /\ outer.plugin = "PluginA" /\ inner.plugin = "PluginB"
    /\ Len(outer.transforms) = 2 /\ Len(inner.transforms) = 2
    /\ outer.transforms[1] # outer.transforms[2]
    /\ inner.transforms[1] = outer.transforms[1]
    /\ Len(merged.args.transforms) = 4

\* C2: each scalar field of splat(outer, inner) is inner's value when inner
\* has it set and outer's value otherwise (unset only when both are unset),
\* whatever the other scalar field holds.
C2_InnerScalarWins ==
    merged.done =>
        /\ inner.plugin # None => merged.args.plugin = inner.plugin
        /\ inner.plugin = None => merged.args.plugin = outer.plugin
        /\ inner.schedule # None => merged.args.schedule = inner.schedule
        /\ inner.schedule = None => merged.args.schedule = outer.schedule
        /\ merged.args.plugin = None <=> (inner.plugin = None /\ outer.plugin = None)
        /\ merged.args.schedule = None <=> (inner.schedule = None /\ outer.schedule = None)

\* the plugin falls back to the group while the schedule is overridden
C2_Witness ==
    /\ merged.done
    /\ outer.plugin = "PluginA" /\ inner.plugin = None
    /\ outer.schedule = "Startup" /\ inner.schedule = "Update"
    /\ merged.args.plugin = "PluginA" /\ merged.args.schedule = "Update"

\* C9: splat is associative: splat(splat(a, b), c) = splat(a, splat(b, c))
\* in plugin, schedule and transforms.
C9_SplatAssociative ==
    nestedL.done =>
        /\ nestedL.args.plugin = nestedR.args.plugin
        /\ nestedL.args.schedule = nestedR.args.schedule
        /\ nestedL.args.transforms = nestedR.args.transforms

\* three levels that each bring transforms, the two inner ones overriding
\* the plugin in turn
C9_Witness ==
    /\ nestedL.done /\ nestedR.done
    /\ outer.plugin = None /\ inner.plugin = "PluginA" /\ innermost.plugin = "PluginB"
    /\ outer.schedule = "Startup" /\ inner.schedule = None /\ innermost.schedule = None
    /\ outer.transforms # <<>> /\ inner.transforms # <<>> /\ innermost.transforms # <<>>
    /\ nestedL.args.plugin = "PluginB" /\ nestedL.args.schedule = "Startup"

---------------------------------------------------------------------------
(* Claims about system_free_standing_impl, checked under SpecGen *)

\* C3: generation from a record whose schedule or plugin is unset ends in a
\* missing-required-config error and emits no item, thunk or registry
\* insertion; a thunk is emitted only when both are set, and it carries the
\* record's own plugin and schedule, never a default.
C3_MissingConfigIsError ==
    genOut.status # "pending" =>
        /\ (genArgs.schedule = None \/ genArgs.plugin = None) =>
              /\ genOut.status = "err"
              /\ genOut.err.kind = "MissingRequiredConfigError"
              /\ genOut.err.key \in {"schedule", "plugin"}
              /\ genArgs[genOut.err.key] = None
              /\ genOut.static = NoStatic
              /\ genOut.item = NoItem
        /\ genOut.status = "ok" =>
              /\ genArgs.schedule # None /\ genArgs.plugin # None
              /\ genOut.static.plugin = genArgs.plugin
              /\ genOut.static.closure.schedule = genArgs.schedule

\* a record with a schedule and transforms but no plugin was refused
C3_Witness ==
    /\ genOut.status = "err"
    /\ genArgs.schedule = "Update" /\ genArgs.plugin = None
    /\ genArgs.transforms # <<>>
    /\ genOut.err = MissingRequiredConfigError("plugin")

\* C6: the handler the thunk registers is the function with the record's
\* transforms applied in declared order, first declared innermost, each once
\* with its own argument; with no transforms it is the bare function.
C6_TransformsAppliedInOrder ==
    genOut.status = "ok" =>
        LET system == genOut.static.closure.system
            h == HandlerExpr(system)
        IN  /\ h.wellformed
            /\ h.base = genItem.ident
            /\ Len(h.applied) = Len(genArgs.transforms)
            /\ \A k \in 1..Len(h.applied) : h.applied[k] = genArgs.transforms[k]
            /\ genArgs.transforms = <<>> => system = <<IdentToken(genItem.ident)>>

\* two different transforms were rendered
C6_Witness ==
    /\ genOut.status = "ok"
    /\ Len(genArgs.transforms) = 2
    /\ genArgs.transforms[1] # genArgs.transforms[2]
    /\ Len(genOut.static.closure.system) = 5

---------------------------------------------------------------------------
(* Claims about SystemArgs::parse, checked under SpecParse *)

ReservedKeys == {"schedule", "plugin"}

\* the places of the `k = value` arguments of a token list
Occurrences(toks, k) ==
    {i \in 1..Len(toks) : toks[i].kind = "NameValue" /\ toks[i].path = <<k>>}

\* the place of the second `k = value` argument
SecondOccurrence(toks, k) ==
    CHOOSE j \in Occurrences(toks, k) :
        Cardinality({i \in Occurrences(toks, k) : i < j}) = 1

\* a comma-separated list of `name = value` arguments
WellSeparated(toks) ==
    \A i \in 1..Len(toks) :
        IF i % 2 = 1 THEN toks[i].kind = "NameValue" /\ Len(toks[i].path) = 1
                     ELSE toks[i].kind = "Comma"

\* everything before place j is well-formed: comma-separated `name = value`
\* arguments, a path as the value of every reserved key, no reserved key
\* given twice
WellFormedBefore(toks, j) ==
    /\ j % 2 = 1
    /\ WellSeparated(SubSeq(toks, 1, j - 1))
    /\ \A i \in 1..(j - 1) :
          (toks[i].kind = "NameValue" /\ toks[i].path[1] \in ReservedKeys)
              => toks[i].value.kind = "Path"
    /\ \A k \in ReservedKeys :
          Cardinality({i \in Occurrences(toks, k) : i < j}) <= 1

\* C4 as stated: parsing a (comma-separated `name = value`) argument list in
\* which schedule, or plugin, occurs twice fails with the duplicate-key error
\* naming that key.
C4_DuplicateAlwaysNamed ==
    (parsed.status # "pending" /\ WellSeparated(input)) =>
        \A k \in ReservedKeys :
            Cardinality(Occurrences(input, k)) >= 2 =>
                parsed = Err(DuplicateKeyError(k))

\* C4, amended: parsing an argument list in which schedule, or plugin, occurs
\* twice always fails and yields no record; the error is the duplicate-key
\* error naming that key, whatever the second occurrence's value, when
\* everything before the second occurrence is well-formed; and every record
\* parsed successfully had each of the two keys at most once.
C4_DuplicateFails ==
    parsed.status # "pending" =>
        /\ \A k \in ReservedKeys :
              Cardinality(Occurrences(input, k)) >= 2 =>
                  /\ parsed.status = "err"
                  /\ parsed.args = NewArgs
                  /\ WellFormedBefore(input, SecondOccurrence(input, k))
                        => parsed.err = DuplicateKeyError(k)
        /\ parsed.status = "ok" =>
              \A k \in ReservedKeys : Cardinality(Occurrences(input, k)) <= 1

\* schedule given first and last, a transform in between, the second
\* occurrence with a value that is no path
C4_Witness ==
    /\ parsed = Err(DuplicateKeyError("schedule"))
    /\ Len(input) = 5
    /\ Occurrences(input, "schedule") = {1, 5}
    /\ input[3].path = <<"run_if">>
    /\ input[5].value.kind = "Other"

---------------------------------------------------------------------------
(* Claims about config_systems!, checked under SpecGroup *)

\* C10: processing a group with defaults D completes for every body and
\* stamps D onto every contained declaration: every function item, and every
\* nested group, gets D attached; every other item is emitted unchanged;
\* the items keep their order and none is dropped.
C10_GroupStampsEveryItem ==
    expanded.status # "pending" =>
        /\ expanded.status = "ok"
        /\ Len(expanded.items) = Len(items)
        /\ \A i \in 1..Len(items) :
              expanded.items[i] =
                  IF items[i].kind \in {"Fn", "Macro"}
                  THEN [items[i] EXCEPT !.attrs = Append(@, config_attr(defaults))]
                  ELSE items[i]

---------------------------------------------------------------------------
(* Claims about the generated program, checked under Spec *)

\* the closures of the statics in `hist` that were declared for plugin p
RECURSIVE ClosuresFor(_, _)
ClosuresFor(p, hist) ==
    IF hist = <<>> THEN <<>>
    ELSE (IF Head(hist).plugin = p THEN <<Head(hist).closure>> ELSE <<>>)
         \o ClosuresFor(p, Tail(hist))

\* the add_systems calls made while plugin p was building
RECURSIVE CallsBy(_, _)
CallsBy(p, calls) ==
    IF calls = <<>> THEN <<>>
    ELSE (IF Head(calls).by = p
          THEN <<[schedule |-> Head(calls).schedule,
                  system |-> Head(calls).system,
                  scope |-> Head(calls).scope]>>
          ELSE <<>>)
         \o CallsBy(p, Tail(calls))

\* C5: the generated identity is a function of (name, path, line), and two
\* declarations with the same name at different paths or lines get different
\* identities; both thunks are then found in the registry under their
\* plugins.
C5_DistinctIdentities ==
    \A i, j \in 1..Len(decls) :
        (/\ i # j
         /\ decls[i].ident = decls[j].ident
         /\ (decls[i].path # decls[j].path \/ decls[i].line # decls[j].line))
        => /\ slice[i].name # slice[j].name
           /\ phase \in {"run", "exited"} =>
                 \A k \in {i, j} :
                    \E n \in 1..Len(entries_for(registry, slice[k].plugin)) :
                       entries_for(registry, slice[k].plugin)[n] = slice[k].closure

\* C7: after any sequence of insertions the registry holds, for each plugin,
\* exactly the closures of the thunks declared for that plugin, each once, in
\* insertion order, and has no entry for anything else.
C7_RegistryIsInsertionHistory ==
    /\ DOMAIN registry \subseteq Plugins
    /\ \A p \in Plugins : entries_for(registry, p) = ClosuresFor(p, inserted)
    /\ \A p \in DOMAIN registry : registry[p] # <<>>

\* insertions for PluginA, PluginB, PluginA, in that order
C7_Witness ==
    /\ Len(inserted) = 3
    /\ inserted[1].plugin = "PluginA"
    /\ inserted[2].plugin = "PluginB"
    /\ inserted[3].plugin = "PluginA"
    /\ inserted[1].closure # inserted[3].closure
    /\ Len(registry["PluginA"]) = 2

=============================================================================
